---- MODULE Spec2Model ----
(***************************************************************************)
(* Command sets (src/src/commands/cmdset.py) and the command parser        *)
(* (src/src/commands/cmdparser.py).                                        *)
(*                                                                         *)
(* Strings the code inspects character by character (command keys, the     *)
(* raw input line) are sequences of one-character strings.                 *)
(*                                                                         *)
(* Python objects that the code shares by reference are kept in a store:   *)
(* store.sets maps an object id to a CmdSet instance, whose commands field *)
(* is the id of a list object in store.lists.  An in-place list operation  *)
(* (append, extend) changes the list object, a rebinding of                *)
(* self.commands changes the field.                                        *)
(***************************************************************************)
EXTENDS Integers, Sequences, FiniteSets, TLC

VARIABLES store, b, c, d, pre, pc, raw_string, COMMAND_MAXLEN, candidates

setvars == <<store, b, c, d, pre>>

parservars == <<raw_string, COMMAND_MAXLEN, candidates>>

vars == <<store, b, c, d, pre, pc, raw_string, COMMAND_MAXLEN, candidates>>

(***************************************************************************)
(* Bounds of the model.                                                    *)
(***************************************************************************)
MaxPriority == 1

\* the longest input line, in tokens, and the largest settings.COMMAND_MAXLEN
MaxTokens == 5

MaxWords == 2

(***************************************************************************)
(* Small helpers.                                                          *)
(***************************************************************************)
Max(S) == CHOOSE m \in S : \A n \in S : n <= m

Range(seq) == {seq[i] : i \in 1..Len(seq)}

\* Python's None
None == 0

(***************************************************************************)
(* Command descriptors.  A descriptor is an instance of a Command class:   *)
(* key is its name, obj the object it was created for (its identity in     *)
(* this model: two instances of the same key on different objects are      *)
(* different instances).                                                   *)
(***************************************************************************)
CmdKeys == {<<"g">>, <<"_", "_">>, <<"_", "_", "x">>}

Cmd(key, obj) == [key |-> key, obj |-> obj]

\* Command.__eq__ : two commands are equal when their names match
CmdEq(cmd1, cmd2) == cmd1.key = cmd2.key

\* what get() returns when nothing matches
NoCmd == [key |-> <<>>, obj |-> "None"]

Policies == {"Union", "Intersect", "Replace", "Remove"}

SetKeys == {"SetA", "SetB"}

\* a key_mergetypes dict: {CmdSetkeystring: mergetype}
EmptyDict == [k \in {} |-> "Union"]

DictGet(dict, key, default) == IF key \in DOMAIN dict THEN dict[key] ELSE default

(***************************************************************************)
(* list(set(commands)): the set keeps the first of several equal elements, *)
(* and lists them in the order of their hashes.                            *)
(***************************************************************************)
KeyHash(key) == Len(key)

ObjHash(obj) == IF obj = "B" THEN 0 ELSE IF obj = "A" THEN 1 ELSE 2

CmdHash(cmd) == KeyHash(cmd.key) * 3 + ObjHash(cmd.obj)

RECURSIVE KeepFirst(_)
KeepFirst(seq) ==
    IF seq = <<>> THEN <<>>
    ELSE LET init == KeepFirst(SubSeq(seq, 1, Len(seq) - 1))
             last == seq[Len(seq)]
         IN IF \E i \in 1..Len(init) : CmdEq(init[i], last)
            THEN init
            ELSE Append(init, last)

RECURSIVE HashOrder(_)
HashOrder(seq) ==
    IF seq = <<>> THEN <<>>
    ELSE LET i == CHOOSE i \in 1..Len(seq) :
                     \A j \in 1..Len(seq) : CmdHash(seq[i]) <= CmdHash(seq[j])
         IN <<seq[i]>> \o HashOrder(SubSeq(seq, 1, i - 1) \o SubSeq(seq, i + 1, Len(seq)))

ListSet(seq) == HashOrder(KeepFirst(seq))

(***************************************************************************)
(* The store.                                                              *)
(***************************************************************************)
NewList(st) == IF DOMAIN st.lists = {} THEN 1 ELSE Max(DOMAIN st.lists) + 1

\* the list object self.commands of the set s
Commands(st, s) == st.lists[st.sets[s].commands]

\* self.commands = <a new list holding seq>
SetCommands(st, s, seq) ==
    LET l == NewList(st)
    IN [sets  |-> [st.sets EXCEPT ![s].commands = l],
        lists |-> (l :> seq) @@ st.lists]

\* list objects no set refers to any more are dropped
Collect(st) ==
    LET live == {st.sets[s].commands : s \in DOMAIN st.sets}
    IN [st EXCEPT !.lists = [l \in live |-> st.lists[l]]]

\* a set as its caller sees it: its settings and the contents of its commands
View(st, s) == [st.sets[s] EXCEPT !.commands = Commands(st, s)]

(***************************************************************************)
(* class CmdSet                                                            *)
(***************************************************************************)
\* CmdSet(): the class attributes, an empty commands list
CmdSetInit(st, new) ==
    LET l == NewList(st)
    IN [sets  |-> (new :> [key              |-> "CmdSet",
                           mergetype        |-> "Union",
                           priority         |-> 0,
                           duplicates       |-> FALSE,
                           key_mergetypes   |-> EmptyDict,
                           no_exits         |-> FALSE,
                           no_objs          |-> FALSE,
                           no_channels      |-> FALSE,
                           commands         |-> l,
                           actual_mergetype |-> "Union",
                           cmdsetobj        |-> "None"]) @@ st.sets,
        lists |-> (l :> <<>>) @@ st.lists]

\* as add, but the list is not made a set again
add_append(st, self, cmd) ==
    IF cmd = NoCmd THEN st
    ELSE [st EXCEPT !.lists[st.sets[self].commands] = Append(@, cmd)]

add(st, self, cmd) ==
    IF cmd = NoCmd THEN st
    ELSE LET st1 == [st EXCEPT !.lists[st.sets[self].commands] = Append(@, cmd)]
         IN SetCommands(st1, self, ListSet(Commands(st1, self)))

remove_cmd(st, self, cmd) ==
    SetCommands(st, self, SelectSeq(Commands(st, self), LAMBDA oldcmd : ~CmdEq(oldcmd, cmd)))

get(st, self, cmd) ==
    LET cmds == Commands(st, self)
        hits == {i \in 1..Len(cmds) : CmdEq(cmds[i], cmd)}
    IN IF hits = {} THEN NoCmd
       ELSE cmds[CHOOSE i \in hits : \A j \in hits : i <= j]

\* as IsSystemCmd, but a key must be longer than three characters
IsSystemCmd_long(cmd) == Len(cmd.key) > 3 /\ SubSeq(cmd.key, 1, 2) = <<"_", "_">>

IsSystemCmd(cmd) == Len(cmd.key) > 2 /\ SubSeq(cmd.key, 1, 2) = <<"_", "_">>

get_system_cmds(st, self) == SelectSeq(Commands(st, self), IsSystemCmd)

copy_this(st, self, new) ==
    LET st1 == CmdSetInit(st, new)
        this == st.sets[self]
    IN [st1 EXCEPT !.sets[new].key            = this.key,
                   !.sets[new].cmdsetobj      = this.cmdsetobj,
                   !.sets[new].no_exits       = this.no_exits,
                   !.sets[new].no_objs        = this.no_objs,
                   !.sets[new].no_channels    = this.no_channels,
                   !.sets[new].mergetype      = this.mergetype,
                   !.sets[new].priority       = this.priority,
                   !.sets[new].duplicates     = this.duplicates,
                   !.sets[new].key_mergetypes = this.key_mergetypes]

contains(st, self, othercmd) ==
    \E i \in 1..Len(Commands(st, self)) : CmdEq(Commands(st, self)[i], othercmd)

(***************************************************************************)
(* The priority-sensitive merge operations.  cmdset_c is the id the new    *)
(* set gets.                                                               *)
(***************************************************************************)
\* as union, but cmdset_c.commands is cmdset_a's list itself, not a copy of it
union_alias(st, cmdset_a, cmdset_b, duplicates, cmdset_c) ==
    LET st1 == copy_this(st, cmdset_a, cmdset_c)
        st2 == [st1 EXCEPT !.sets[cmdset_c].commands = st1.sets[cmdset_a].commands]
        ext == IF duplicates /\ st2.sets[cmdset_a].priority = st2.sets[cmdset_b].priority
               THEN Commands(st2, cmdset_b)
               ELSE SelectSeq(Commands(st2, cmdset_b),
                              LAMBDA cmd : ~contains(st2, cmdset_a, cmd))
    IN [st2 EXCEPT !.lists[st2.sets[cmdset_c].commands] = @ \o ext]

\* as union, but every command of cmdset_b is appended
union_all(st, cmdset_a, cmdset_b, duplicates, cmdset_c) ==
    LET st1 == copy_this(st, cmdset_a, cmdset_c)
        st2 == SetCommands(st1, cmdset_c, Commands(st1, cmdset_a))
    IN [st2 EXCEPT !.lists[st2.sets[cmdset_c].commands] = @ \o Commands(st2, cmdset_b)]

union(st, cmdset_a, cmdset_b, duplicates, cmdset_c) ==
    LET st1 == copy_this(st, cmdset_a, cmdset_c)
        st2 == SetCommands(st1, cmdset_c, Commands(st1, cmdset_a))
        ext == IF duplicates /\ st2.sets[cmdset_a].priority = st2.sets[cmdset_b].priority
               THEN Commands(st2, cmdset_b)
               ELSE SelectSeq(Commands(st2, cmdset_b),
                              LAMBDA cmd : ~contains(st2, cmdset_a, cmd))
    IN [st2 EXCEPT !.lists[st2.sets[cmdset_c].commands] = @ \o ext]

RECURSIVE AddBoth(_, _, _, _)
\* for cmd in shared: cmdset_c.add(cmd); cmdset_c.add(cmdset_b.get(cmd))
AddBoth(st, cmdset_b, cmdset_c, shared) ==
    IF shared = <<>> THEN st
    ELSE LET st1 == add(st, cmdset_c, Head(shared))
             st2 == add(st1, cmdset_c, get(st1, cmdset_b, Head(shared)))
         IN AddBoth(st2, cmdset_b, cmdset_c, Tail(shared))

intersect(st, cmdset_a, cmdset_b, duplicates, cmdset_c) ==
    LET st1 == copy_this(st, cmdset_a, cmdset_c)
        shared == SelectSeq(Commands(st1, cmdset_a),
                            LAMBDA cmd : contains(st1, cmdset_b, cmd))
    IN IF duplicates /\ st1.sets[cmdset_a].priority = st1.sets[cmdset_b].priority
       THEN AddBoth(st1, cmdset_b, cmdset_c, shared)
       ELSE SetCommands(st1, cmdset_c, shared)

\* as replace, but the commands copied are cmdset_b's
replace_other(st, cmdset_a, cmdset_b, cmdset_c) ==
    LET st1 == copy_this(st, cmdset_a, cmdset_c)
    IN SetCommands(st1, cmdset_c, Commands(st1, cmdset_b))

replace(st, cmdset_a, cmdset_b, cmdset_c) ==
    LET st1 == copy_this(st, cmdset_a, cmdset_c)
    IN SetCommands(st1, cmdset_c, Commands(st1, cmdset_a))

remove(st, cmdset_a, cmdset_b, cmdset_c) ==
    LET st1 == copy_this(st, cmdset_a, cmdset_c)
    IN SetCommands(st1, cmdset_c,
                   SelectSeq(Commands(st1, cmdset_b),
                             LAMBDA cmd : ~contains(st1, cmdset_a, cmd)))

RECURSIVE AddAll(_, _, _)
\* for cmd in cmds: self.add(cmd)
AddAll(st, self, cmds) ==
    IF cmds = <<>> THEN st
    ELSE AddAll(add(st, self, Head(cmds)), self, Tail(cmds))

\* the merge type __add__ applies
MergeType(st, self, cmdset_b) ==
    IF st.sets[self].priority >= st.sets[cmdset_b].priority
    THEN DictGet(st.sets[self].key_mergetypes, st.sets[cmdset_b].key,
                 st.sets[self].mergetype)
    ELSE DictGet(st.sets[cmdset_b].key_mergetypes, st.sets[self].key,
                 st.sets[cmdset_b].mergetype)

\* C = A + B; the result is [st |-> the store afterwards, ret |-> the set returned]
__add__(st, self, cmdset_b, cmdset_c) ==
    IF cmdset_b = None THEN [st |-> st, ret |-> self]
    ELSE LET sys_commands == get_system_cmds(st, self) \o get_system_cmds(st, cmdset_b)
             mergetype == MergeType(st, self, cmdset_b)
             st1 == IF st.sets[self].priority >= st.sets[cmdset_b].priority
                    THEN CASE mergetype = "Intersect" ->
                                intersect(st, self, cmdset_b,
                                          st.sets[cmdset_b].duplicates, cmdset_c)
                           [] mergetype = "Replace" ->
                                replace(st, self, cmdset_b, cmdset_c)
                           [] mergetype = "Remove" ->
                                remove(st, self, cmdset_b, cmdset_c)
                           [] OTHER ->
                                union(st, self, cmdset_b,
                                      st.sets[cmdset_b].duplicates, cmdset_c)
                    ELSE CASE mergetype = "Intersect" ->
                                intersect(st, cmdset_b, self,
                                          st.sets[self].duplicates, cmdset_c)
                           [] mergetype = "Replace" ->
                                replace(st, cmdset_b, self, cmdset_c)
                           [] mergetype = "Remove" ->
                                remove(st, self, cmdset_b, cmdset_c)
                           [] OTHER ->
                                union(st, cmdset_b, self,
                                      st.sets[self].duplicates, cmdset_c)
             st2 == [st1 EXCEPT !.sets[cmdset_c].actual_mergetype = mergetype]
         IN [st |-> AddAll(st2, cmdset_c, sys_commands), ret |-> cmdset_c]

(***************************************************************************)
(* The sets a merge is applied to.  A (id 1) and B (id 2) are instances of *)
(* two CmdSet classes; the class attributes are drawn from small sets, the *)
(* commands are those at_cmdset_creation added with add().                 *)
(***************************************************************************)
A == 1
B == 2
C == 3
D == 4

Flags == {<<FALSE, FALSE, FALSE>>, <<TRUE, FALSE, TRUE>>, <<FALSE, TRUE, FALSE>>}

Dicts == {EmptyDict} \cup {k :> p : k \in SetKeys, p \in Policies}

RECURSIVE SetToSeq(_)
SetToSeq(S) ==
    IF S = {} THEN <<>>
    ELSE LET x == CHOOSE x \in S : TRUE
         IN <<x>> \o SetToSeq(S \ {x})

EmptyStore == [sets |-> <<>>, lists |-> <<>>]

\* an instance of a CmdSet subclass with the given class attributes, whose
\* at_cmdset_creation adds one command per key of keys
NewCmdSet(st, new, key, obj, priority, mergetype, duplicates, dict, flags, keys) ==
    LET st1 == CmdSetInit(st, new)
        st2 == [st1 EXCEPT !.sets[new].key              = key,
                           !.sets[new].cmdsetobj        = obj,
                           !.sets[new].priority         = priority,
                           !.sets[new].mergetype        = mergetype,
                           !.sets[new].actual_mergetype = mergetype,
                           !.sets[new].duplicates       = duplicates,
                           !.sets[new].key_mergetypes   = dict,
                           !.sets[new].no_exits         = flags[1],
                           !.sets[new].no_objs          = flags[2],
                           !.sets[new].no_channels      = flags[3]]
    IN Collect(AddAll(st2, new, SetToSeq({Cmd(k, obj) : k \in keys})))

(***************************************************************************)
(* The command parser.  Strings are sequences of characters.                *)
(***************************************************************************)
Min(i, j) == IF i <= j THEN i ELSE j

\* Python's s[lo:hi], indices from 0, clipped to the string
Slice(s, lo, hi) == SubSeq(s, lo + 1, Min(hi, Len(s)))

Whitespace == {" ", "\t"}

Lower(ch) == IF ch = "B" THEN "b" ELSE ch

\* str.lower()
lower(s) == [i \in 1..Len(s) |-> Lower(s[i])]

RECURSIVE LStrip(_)
LStrip(s) == IF s # <<>> /\ Head(s) \in Whitespace THEN LStrip(Tail(s)) ELSE s

RECURSIVE RStrip(_)
RStrip(s) ==
    IF s # <<>> /\ s[Len(s)] \in Whitespace THEN RStrip(SubSeq(s, 1, Len(s) - 1)) ELSE s

\* str.strip()
strip(s) == RStrip(LStrip(s))

RECURSIVE SplitAt(_, _, _)
\* str.split(sep) for a one-character sep: the pieces between the separators,
\* empty pieces included; word is the piece being read
SplitAt(s, sep, word) ==
    IF s = <<>> THEN <<word>>
    ELSE IF Head(s) = sep THEN <<word>> \o SplitAt(Tail(s), sep, <<>>)
    ELSE SplitAt(Tail(s), sep, Append(word, Head(s)))

split_space(s) == SplitAt(s, " ", <<>>)

RECURSIVE SplitWords(_, _)
\* str.split(None): the words between runs of whitespace, no empty word
SplitWords(s, word) ==
    IF s = <<>> THEN IF word = <<>> THEN <<>> ELSE <<word>>
    ELSE IF Head(s) \in Whitespace
    THEN (IF word = <<>> THEN <<>> ELSE <<word>>) \o SplitWords(Tail(s), <<>>)
    ELSE SplitWords(Tail(s), Append(word, Head(s)))

split_none(s) == SplitWords(s, <<>>)

RECURSIVE Join(_, _)
\* sep.join(words)
Join(sep, words) ==
    IF words = <<>> THEN <<>>
    ELSE IF Len(words) = 1 THEN words[1]
    ELSE words[1] \o sep \o Join(sep, Tail(words))

\* the strings of the list SPECIAL_CHARS
SPECIAL_CHARS == << <<"/">>, <<"\\">>, <<"'">>, <<"\"">>, <<":">>, <<";">>,
                    <<"\\", "-">>, <<"#">>, <<"=">>, <<"!">> >>

\* the pattern r"""["%s"]""" % ("".join(SPECIAL_CHARS))
Pattern == <<"[", "\"">> \o Join(<<>>, SPECIAL_CHARS) \o <<"\"", "]">>

RECURSIVE ClassChars(_)
\* the characters a character class matches: inside the brackets a backslash
\* makes the character after it a literal
ClassChars(body) ==
    IF body = <<>> THEN {}
    ELSE IF Head(body) = "\\" /\ Len(body) >= 2
    THEN {body[2]} \cup ClassChars(SubSeq(body, 3, Len(body)))
    ELSE {Head(body)} \cup ClassChars(Tail(body))

\* re.compile(Pattern): the set of characters it matches
REGEX == ClassChars(SubSeq(Pattern, 2, Len(Pattern) - 1))

\* REGEX.search(s).start(), None when there is no match
NoMatch == -1

search(s) ==
    LET hits == {i \in 1..Len(s) : s[i] \in REGEX}
    IN IF hits = {} THEN NoMatch
       ELSE (CHOOSE i \in hits : \A j \in hits : i <= j) - 1

\* obj_key=None
NoObjKey == <<"None">>

CommandCandidate(cmdname, args, priority, obj_key) ==
    [cmdname |-> cmdname, args |-> args, priority |-> priority, obj_key |-> obj_key]

RECURSIVE BuildArgs(_, _)
\* the loop over wordlist that builds args
BuildArgs(args, wordlist) ==
    IF wordlist = <<>> THEN args
    ELSE LET word == Head(wordlist)
         IN IF args = <<>> \/ (word # <<>> /\ search(<<word[1]>>) # NoMatch)
            THEN BuildArgs(args \o word, Tail(wordlist))
            ELSE BuildArgs(args \o <<" ">> \o word, Tail(wordlist))

\* what a call gives: the list returned, or raised = TRUE when it raised
Returned(cands) == [raised |-> FALSE, candidates |-> cands]

Raised == [raised |-> TRUE, candidates |-> <<>>]

RECURSIVE CandidateLoop(_, _, _, _, _)
\* the iterations n_words .. nr_candidates - 1 of the loop of produce_candidates
CandidateLoop(n_words, nr_candidates, cmdwords_list, wordlist, cands) ==
    IF n_words >= nr_candidates THEN Returned(cands)
    ELSE IF wordlist = <<>> THEN Raised   \* pop from empty list
    ELSE LET cmdwords_list1 == Append(cmdwords_list, Head(wordlist))
             wordlist1 == Tail(wordlist)
             cmdwords == Join(<<" ">>, [i \in 1..Len(cmdwords_list1) |->
                                           lower(strip(cmdwords_list1[i]))])
             args == BuildArgs(<<>>, wordlist1)
         IN CandidateLoop(n_words + 1, nr_candidates, cmdwords_list1, wordlist1,
                          Append(cands, CommandCandidate(cmdwords, args, n_words, NoObjKey)))

produce_candidates(nr_candidates, wordlist) ==
    CandidateLoop(0, nr_candidates, <<>>, wordlist, <<>>)

\* the end of cmdparser: no special character, or none within the allowed words
RunNormally(raw, maxlen, cands) ==
    LET nr_candidates == Min(maxlen, Len(split_none(raw)))
        produced == produce_candidates(nr_candidates, split_space(raw))
    IN IF produced.raised THEN Raised
       ELSE Returned(cands \o produced.candidates)

RECURSIVE cmdparser(_, _)
cmdparser(raw, maxlen) ==
    LET raw_stripped == strip(raw)
        end_index == search(raw_stripped)
    IN IF end_index = NoMatch THEN RunNormally(raw_stripped, maxlen, <<>>)
       ELSE IF end_index = 0
       THEN Returned(<<CommandCandidate(<<raw_stripped[1]>>,
                                        IF Len(raw_stripped) > 1
                                        THEN Slice(raw_stripped, 1, Len(raw_stripped))
                                        ELSE <<>>,
                                        0, NoObjKey)>>)
       ELSE LET end_char == raw_stripped[end_index + 1]
                is_obj_form == /\ end_char = "'"
                               /\ Len(raw_stripped) > end_index + 1
                               /\ Slice(raw_stripped, end_index + 1, end_index + 3)
                                    = <<"s", " ">>
                alt == IF is_obj_form
                       THEN cmdparser(Slice(raw_stripped, end_index + 2,
                                            Len(raw_stripped)), maxlen)
                       ELSE Returned(<<>>)
                obj_key == Slice(raw_stripped, 0, end_index)
                cands == [i \in 1..Len(alt.candidates) |->
                             [alt.candidates[i] EXCEPT !.obj_key = obj_key]]
                nr_candidates == Len(split_none(Slice(raw_stripped, 0, end_index)))
            IN IF alt.raised THEN Raised
               ELSE IF nr_candidates <= maxlen
               THEN LET wordlist == split_space(Slice(raw_stripped, 0, end_index))
                                    \o split_space(Slice(raw_stripped, end_index,
                                                         Len(raw_stripped)))
                        produced == produce_candidates(nr_candidates, wordlist)
                    IN IF produced.raised THEN Raised
                       ELSE Returned(cands \o produced.candidates)
               ELSE RunNormally(raw_stripped, maxlen, cands)

(***************************************************************************)
(* The input lines the parser is given: up to MaxTokens of these pieces.   *)
(***************************************************************************)
Tokens == {<<"s">>, <<"B">>, <<" ">>, <<"\t">>, <<"'">>, <<"'", "s", " ">>,
           <<":">>, <<"\\">>}

\* the line that n pieces make
Line(pieces) == Join(<<>>, pieces)

ParserIdle ==
    /\ raw_string = <<>>
    /\ COMMAND_MAXLEN = 1
    /\ candidates = Returned(<<>>)

SetsIdle ==
    /\ store = EmptyStore
    /\ b = None
    /\ c = None
    /\ d = None
    /\ pre = EmptyStore

\* the key_mergetypes and the no_exits, no_objs, no_channels of the two classes
DictPairs == {<<EmptyDict, EmptyDict>>}
             \cup {<<km, EmptyDict>> : km \in Dicts} \cup {<<EmptyDict, km>> : km \in Dicts}

FlagPairs == {<<f, g>> \in Flags \X Flags : f # g}

Built(prioA, mtA, dupA, dictA, flagsA, keysA, other, prioB, mtB, dupB, dictB, flagsB, keysB) ==
    /\ LET stA == NewCmdSet(EmptyStore, A, "SetA", "A", prioA, mtA, dupA,
                            dictA, flagsA, keysA)
       IN store = IF other = None THEN stA
                  ELSE NewCmdSet(stA, B, "SetB", "B", prioB, mtB, dupB,
                                 dictB, flagsB, keysB)
    /\ b = other
    /\ c = None
    /\ d = None
    /\ pre = store
    /\ pc = "built"

\* two classes with default flags and no key_mergetypes, holding any commands;
\* or two classes of any settings, holding two commands each
InitMerge ==
    /\ ParserIdle
    /\ \E prioA, prioB \in 0..MaxPriority, mtA, mtB \in Policies, dupA, dupB \in BOOLEAN :
          \/ \E keysA, keysB \in SUBSET CmdKeys, other \in {None, B} :
                Built(prioA, mtA, dupA, EmptyDict, <<FALSE, FALSE, FALSE>>, keysA, other,
                      prioB, mtB, dupB, EmptyDict, <<FALSE, FALSE, FALSE>>, keysB)
          \/ \E dicts \in DictPairs, flags \in FlagPairs :
                Built(prioA, mtA, dupA, dicts[1], flags[1], {<<"g">>, <<"_", "_", "x">>}, B,
                      prioB, mtB, dupB, dicts[2], flags[2], {<<"g">>, <<"_", "_">>})

\* the keys of the commands the caller adds to the result or removes from it
ChangedKeys == {<<"g">>, <<"_", "_", "x">>}

\* c = a + b
Merge ==
    /\ pc = "built"
    /\ LET r == __add__(store, A, b, C)
       IN /\ store' = Collect(r.st)
          /\ c' = r.ret
    /\ pre' = store
    /\ pc' = "merged"
    /\ UNCHANGED <<b, d, parservars>>

\* d = b + a, the same two sets merged the other way round
MergeBack ==
    /\ pc = "merged"
    /\ b # None
    /\ LET r == __add__(store, b, A, D)
       IN /\ store' = Collect(r.st)
          /\ d' = r.ret
    /\ pc' = "both"
    /\ UNCHANGED <<b, c, pre, parservars>>

\* c.add(cmd), for a command created for another object
AddToResult ==
    /\ pc = "merged"
    /\ \E key \in ChangedKeys : store' = Collect(add(store, c, Cmd(key, "C")))
    /\ pc' = "changed"
    /\ UNCHANGED <<b, c, d, pre, parservars>>

\* c.remove(cmd)
RemoveFromResult ==
    /\ pc = "merged"
    /\ \E key \in ChangedKeys : store' = Collect(remove_cmd(store, c, Cmd(key, "C")))
    /\ pc' = "changed"
    /\ UNCHANGED <<b, c, d, pre, parservars>>

NextMerge == Merge \/ MergeBack \/ AddToResult \/ RemoveFromResult

SpecMerge == InitMerge /\ [][NextMerge]_vars

InitParse ==
    /\ SetsIdle
    /\ raw_string = <<>>
    /\ COMMAND_MAXLEN = 1
    /\ candidates = Returned(<<>>)
    /\ pc = "ready"

\* candidates = cmdparser(raw_string), under a setting of COMMAND_MAXLEN
Parse ==
    /\ pc = "ready"
    /\ \E n \in 0..MaxTokens, maxlen \in 1..MaxWords :
          \E pieces \in [1..n -> Tokens] :
              /\ raw_string' = Line(pieces)
              /\ COMMAND_MAXLEN' = maxlen
              /\ candidates' = cmdparser(Line(pieces), maxlen)
    /\ pc' = "parsed"
    /\ UNCHANGED setvars

NextParse == Parse

SpecParse == InitParse /\ [][NextParse]_vars

(***************************************************************************)
(* Properties of the merge.  In a state after Merge, pre is the store the  *)
(* merge was called in, store the one it left, and c the set it returned.  *)
(***************************************************************************)
KeysOf(cmds) == {cmds[i].key : i \in 1..Len(cmds)}

SystemKey(key) == Len(key) > 2 /\ key[1] = "_" /\ key[2] = "_"

SystemCmds(cmds) == {cmd \in Range(cmds) : SystemKey(cmd.key)}

\* the lists x and y hold the same commands
SameCmds(x, y) == Range(x) = Range(y) /\ Len(x) = Len(y)

CmdsA == Commands(pre, A)

CmdsB == Commands(pre, B)

Result == Commands(store, c)

AIsHigher == pre.sets[A].priority >= pre.sets[B].priority

HSet == IF AIsHigher THEN A ELSE B

LSet == IF AIsHigher THEN B ELSE A

CmdsH == Commands(pre, HSet)

CmdsL == Commands(pre, LSet)

EffectivePolicy ==
    IF pre.sets[LSet].key \in DOMAIN pre.sets[HSet].key_mergetypes
    THEN pre.sets[HSet].key_mergetypes[pre.sets[LSet].key]
    ELSE pre.sets[HSet].mergetype

C2_RemoveKeys ==
    (pc = "merged" /\ b # None /\ EffectivePolicy = "Remove") =>
        /\ {k \in KeysOf(Result) : ~SystemKey(k)}
             = {k \in KeysOf(CmdsL) \ KeysOf(CmdsH) : ~SystemKey(k)}
        /\ \A cmd \in Range(CmdsH) : ~SystemKey(cmd.key) => cmd \notin Range(Result)

\* C3: every system key of A or of B is a key of the merged set.
C3_SystemPreserved ==
    (pc = "merged" /\ b # None) =>
        \A cmd \in Range(CmdsA) \cup Range(CmdsB) :
            SystemKey(cmd.key) => cmd.key \in KeysOf(Result)

\* Replace was applied and a system command only the lower set held is kept
C3_Witness ==
    /\ pc = "merged" /\ b # None /\ EffectivePolicy = "Replace"
    /\ \E cmd \in Range(CmdsL) :
          /\ SystemKey(cmd.key)
          /\ cmd.key \notin KeysOf(CmdsH)
          /\ cmd \in Range(Result)

\* C4: a merge leaves A and B as they were, and when B is a set the result is
\* a third set: adding to it or removing from it leaves A and B as they were.
C4_InputsUnchanged ==
    /\ pc \in {"merged", "both"} =>
          /\ View(store, A) = View(pre, A)
          /\ b # None => View(store, B) = View(pre, B)
    /\ (pc \in {"merged", "both", "changed"} /\ b # None) =>
          /\ c \notin {A, B}
          /\ View(store, A) = View(pre, A)
          /\ View(store, B) = View(pre, B)

\* a command was added to the result of a Union of two sets with commands
C4_Witness ==
    /\ pc = "changed" /\ b # None /\ EffectivePolicy = "Union"
    /\ CmdsA # <<>> /\ CmdsB # <<>>
    /\ \E cmd \in Range(Result) : cmd.obj = "C"

\* C5: the settings of the result are those of the higher-priority set, and
\* its actual_mergetype is the merge type applied.
C5_ResultSettings ==
    (pc = "merged" /\ b # None) =>
        LET r == store.sets[c]
            h == pre.sets[HSet]
        IN /\ r.key = h.key
           /\ r.priority = h.priority
           /\ r.duplicates = h.duplicates
           /\ r.no_exits = h.no_exits
           /\ r.no_objs = h.no_objs
           /\ r.no_channels = h.no_channels
           /\ r.key_mergetypes = h.key_mergetypes
           /\ r.mergetype = h.mergetype
           /\ r.actual_mergetype = EffectivePolicy

\* C6: with unequal priorities, duplicates off and Union applied, A + B and
\* B + A hold the same commands; their keys are those of either set, and a
\* command whose key both sets hold is the higher-priority set's.
C6_UnionCommutes ==
    (/\ pc = "both"
     /\ pre.sets[A].priority # pre.sets[B].priority
     /\ ~pre.sets[A].duplicates /\ ~pre.sets[B].duplicates
     /\ EffectivePolicy = "Union") =>
        /\ Range(Commands(store, c)) = Range(Commands(store, d))
        /\ KeysOf(Commands(store, c)) = KeysOf(CmdsA) \cup KeysOf(CmdsB)
        /\ \A cmd \in Range(Commands(store, c)) \cup Range(Commands(store, d)) :
              cmd.key \in KeysOf(CmdsH) => cmd \in Range(CmdsH)

\* both orders were merged, B being higher, and the sets share a key
C6_Witness ==
    /\ pc = "both" /\ ~AIsHigher
    /\ ~pre.sets[A].duplicates /\ ~pre.sets[B].duplicates
    /\ EffectivePolicy = "Union"
    /\ KeysOf(CmdsA) \cap KeysOf(CmdsB) # {}
    /\ KeysOf(CmdsA) # KeysOf(CmdsB)
    /\ Range(Commands(store, c)) = Range(Commands(store, d))

\* C7: on equal priorities with B's duplicates set, a Union holds every command
\* of A and of B, and an Intersect holds, for a key both hold, A's command and
\* B's.
C7_DuplicatesOnTie ==
    (/\ pc = "merged" /\ b # None
     /\ pre.sets[A].priority = pre.sets[B].priority
     /\ pre.sets[B].duplicates) =>
        /\ EffectivePolicy = "Union" =>
              Range(CmdsA) \cup Range(CmdsB) \subseteq Range(Result)
        /\ EffectivePolicy = "Intersect" =>
              \A x \in Range(CmdsA), y \in Range(CmdsB) :
                  x.key = y.key => x \in Range(Result) /\ y \in Range(Result)

(***************************************************************************)
(* Properties of the parser.  In a state after Parse, candidates is what   *)
(* cmdparser(raw_string) gave under the setting COMMAND_MAXLEN.            *)
(***************************************************************************)
\* the input line without the whitespace around it
Trimmed == strip(raw_string)

\* the ten characters that end a command name
BoundaryChars == {"/", "\\", "'", "\"", ":", ";", "-", "#", "=", "!"}

\* the words of the input line
Words == split_none(Trimmed)

\* where the first boundary character of the input line is, 0 if it has none
FirstBoundary ==
    IF \E i \in 1..Len(Trimmed) : Trimmed[i] \in BoundaryChars
    THEN CHOOSE i \in 1..Len(Trimmed) :
            /\ Trimmed[i] \in BoundaryChars
            /\ \A j \in 1..(i - 1) : Trimmed[j] \notin BoundaryChars
    ELSE 0

\* C8: an input line of n words and no boundary character gives
\* min(COMMAND_MAXLEN, n) candidates; candidate i (from 0) has priority i, the
\* first i+1 words, lowercased and joined by single spaces, as its name, and
\* the other words, joined by single spaces, as its args.
C8_CandidateGeneration ==
    (pc = "parsed" /\ FirstBoundary = 0) =>
        LET n == Len(Words)
            k == Min(COMMAND_MAXLEN, n)
        IN /\ ~candidates.raised
           /\ Len(candidates.candidates) = k
           /\ \A i \in 1..Min(k, Len(candidates.candidates)) :
                 LET cand == candidates.candidates[i]
                 IN /\ cand.priority = i - 1
                    /\ cand.cmdname = lower(Join(<<" ">>, SubSeq(Words, 1, i)))
                    /\ cand.args = Join(<<" ">>, SubSeq(Words, i + 1, n))

\* C9: an input line that begins with a boundary character gives one
\* candidate: its name is that character, its args all that follows it, and
\* it has no obj_key.
C9_LeadingBoundary ==
    (pc = "parsed" /\ FirstBoundary = 1) =>
        /\ ~candidates.raised
        /\ Len(candidates.candidates) = 1
        /\ candidates.candidates[1].cmdname = <<Trimmed[1]>>
        /\ candidates.candidates[1].args = Tail(Trimmed)
        /\ candidates.candidates[1].obj_key = NoObjKey

\* the input line has the form <objname>'s <rest>, the apostrophe being its
\* first boundary character
ObjectForm ==
    /\ FirstBoundary > 1
    /\ Trimmed[FirstBoundary] = "'"
    /\ Len(Trimmed) >= FirstBoundary + 2
    /\ SubSeq(Trimmed, FirstBoundary + 1, FirstBoundary + 2) = <<"s", " ">>

\* C10: an input line <objname>'s <rest> gives the candidates of <rest>
\* parsed on its own, each with <objname> as its obj_key, and after them
\* candidates without obj_key whose names hold nothing from the apostrophe on.
C10_ObjectForm ==
    (pc = "parsed" /\ ObjectForm) =>
        LET objname == SubSeq(Trimmed, 1, FirstBoundary - 1)
            alt == cmdparser(SubSeq(Trimmed, FirstBoundary + 3, Len(Trimmed)),
                             COMMAND_MAXLEN)
            tagged == [i \in 1..Len(alt.candidates) |->
                          [alt.candidates[i] EXCEPT !.obj_key = objname]]
            cands == candidates.candidates
        IN /\ ~candidates.raised
           /\ ~alt.raised
           /\ Len(cands) >= Len(tagged)
           /\ SubSeq(cands, 1, Len(tagged)) = tagged
           /\ \A i \in (Len(tagged) + 1)..Len(cands) :
                 /\ cands[i].obj_key = NoObjKey
                 /\ Range(cands[i].cmdname) \cap BoundaryChars = {}

\* C11: the parser raises nothing, whatever the input line and
\* COMMAND_MAXLEN >= 1, and it gives at least one candidate whenever the input
\* line, without the whitespace around it, is not empty.
C11_ParserTotal ==
    pc = "parsed" =>
        /\ ~candidates.raised
        /\ Trimmed # <<>> => Len(candidates.candidates) > 0

(***************************************************************************)
(* Uniqueness of the commands of a set.                                    *)
(***************************************************************************)
\* no two commands of the list are equal
Unique(cmds) ==
    \A i, j \in 1..Len(cmds) : i # j => ~CmdEq(cmds[i], cmds[j])

\* self + cmdset_b is a Union of two sets of equal priority that keeps the
\* duplicates, and neither set holds a system command to be added afterwards
DuplicateUnion(self, cmdset_b) ==
    /\ pre.sets[self].priority = pre.sets[cmdset_b].priority
    /\ pre.sets[cmdset_b].duplicates
    /\ DictGet(pre.sets[self].key_mergetypes, pre.sets[cmdset_b].key,
               pre.sets[self].mergetype) = "Union"
    /\ SystemCmds(CmdsA) \cup SystemCmds(CmdsB) = {}

====
